---- MODULE Spec2Model ----
(***************************************************************************)
(* Model of the similarity ranking code of src/BigQuery/bigquery.py:       *)
(* SimilarityCalculator.cosine_similarity, .batch_cosine_similarity and    *)
(* .find_top_similar.                                                      *)
(*                                                                         *)
(* Numbers.  The code computes in float64.  A finite score is modelled by  *)
(* its exact value sgn * sqrt(p / q), kept in lowest terms, so that equal  *)
(* records are equal scores; the float NaN is a value of its own that      *)
(* compares false with everything, itself included.  Embeddings have small *)
(* integer components (cosine similarity does not change when a vector is  *)
(* scaled, so [0.7, 0.7, 0] is modelled by a vector of equal components).  *)
(***************************************************************************)
EXTENDS Integers, Sequences, FiniteSets, TLC

VARIABLES
    target_embedding,   \* find_top_similar: argument target_embedding
    candidates_df,      \* find_top_similar: argument candidates_df (the caller's frame)
    top_k,              \* find_top_similar: argument top_k
    quicksort,          \* tie order of numpy's default (unstable) sort in this build
    calls,              \* number of find_top_similar calls made so far
    outcome,            \* how the latest call ended: "none", "returned", "ValueError"
    result,             \* rows of the DataFrame the latest call returned
    result_df,          \* rows of result_df, the scored copy, in the latest call
    first,              \* outcome and rows of the first call
    vec1, vec2,         \* cosine_similarity: arguments
    cos_pc,             \* cosine_similarity: "start" or "done"
    cos_out,            \* cosine_similarity: how it ended and what it returned
    par_target,         \* concurrent calls: each caller's target_embedding
    par_df,             \* concurrent calls: each caller's candidates_df
    par_k,              \* concurrent calls: each caller's top_k
    par_sims,           \* concurrent calls: each call's array similarities
    par_order,          \* concurrent calls: the rows scored so far, in time order
    par_pc,             \* concurrent calls: "scoring" or "done"
    par_result,         \* concurrent calls: the rows each call returned
    xml_file,           \* search: what the XML file at xml_path holds
    bq_target,          \* search: what the store answers to the target query
    bq_candidates,      \* search: what the store answers to the candidate query
    srch_k,             \* search: argument top_k
    srch_pc,            \* search: the stage to run next, or "done"
    srch_stages,        \* search: the stages run so far, in time order
    srch_target,        \* search: local target_embedding
    srch_cands,         \* search: local candidates_df
    srch_out,           \* search: how the call ended and the rows it returned
    rt_helper,          \* retry helper: which of the four helpers runs
    rt_max_retries,     \* retry helper: argument max_retries
    rt_initial_wait,    \* retry helper: argument initial_wait
    rt_attempt,         \* retry helper: loop variable attempt
    rt_replies,         \* retry helper: what the model answered to each call so far
    rt_waits,           \* retry helper: the arguments of time.sleep so far
    rt_pc,              \* retry helper: "loop" or "done"
    rt_out,             \* retry helper: how the call ended
    an_pc,              \* run_patent_analysis: "running" or "done"
    an_started,         \* run_patent_analysis: the steps started so far, in time order
    an_texts,           \* run_patent_analysis: the texts of the responses obtained so far
    an_failed,          \* run_patent_analysis: the step that raised and the exception
    an_report,          \* run_patent_analysis: the dict analysis_report, in insertion order
    an_out,             \* run_patent_analysis: how the call ended and what it returned
    ex_pc,              \* run_full_examination: the step to run next, or "done"
    ex_started,         \* run_full_examination: the steps started so far, in time order
    ex_history,         \* run_full_examination: self.processing_history (step numbers)
    ex_novelty,         \* run_full_examination: novelty_report, or what stands for none
    ex_inventive,       \* run_full_examination: inventive_step_report, or what stands for none
    ex_out,             \* run_full_examination: how the call ended and its summary
    dl_script,          \* download: the script that runs
    dl_rows,            \* download: the rows of the temporary table, in download order
    dl_i,               \* download: the number of rows the loop has taken
    dl_chunk_num,       \* download: chunk_num
    dl_chunk_data,      \* download: chunk_data
    dl_files,           \* download: the chunk files written so far, in time order
    dl_pc,              \* download: "loop" or "done"
    dl_reported,        \* download: the number printed as Total chunks saved
    bt_verbose,         \* process_batch: config.verbose
    bt_total,           \* process_batch: len(df)
    bt_start, bt_end,   \* process_batch: start and end
    bt_i,               \* process_batch: the loop variable i, end when the loop is over
    bt_processed_count, \* process_batch: processed_count
    bt_error_count,     \* process_batch: error_count
    bt_skipped_count,   \* process_batch: skipped_count
    bt_marks,           \* process_batch: per row taken, how often each counter went up
    bt_pc,              \* process_batch: "loop" or "done"
    rag_documents,      \* SimpleRAGSystem: self.documents, the paragraphs of each text
    rag_chunks,         \* SimpleRAGSystem: self.chunks, in insertion order
    rag_calls,          \* SimpleRAGSystem: number of index_document calls so far
    rag_snippets,       \* SimpleRAGSystem: the chunk texts the latest search returned
    sc_target,          \* the two scorers: target_vec, also vec1 of each pairwise call
    sc_cands,           \* the two scorers: candidate_vecs, n rows of one length
    sc_batch,           \* the two scorers: how batch_cosine_similarity ended
    sc_pair             \* the two scorers: how cosine_similarity ended, row by row

vars == <<target_embedding, candidates_df, top_k, quicksort, calls, outcome,
          result, result_df, first, vec1, vec2, cos_pc, cos_out,
          par_target, par_df, par_k, par_sims, par_order, par_pc, par_result,
          xml_file, bq_target, bq_candidates, srch_k, srch_pc, srch_stages,
          srch_target, srch_cands, srch_out,
          rt_helper, rt_max_retries, rt_initial_wait, rt_attempt, rt_replies,
          rt_waits, rt_pc, rt_out,
          an_pc, an_started, an_texts, an_failed, an_report, an_out,
          ex_pc, ex_started, ex_history, ex_novelty, ex_inventive, ex_out,
          dl_script, dl_rows, dl_i, dl_chunk_num, dl_chunk_data, dl_files,
          dl_pc, dl_reported,
          bt_verbose, bt_total, bt_start, bt_end, bt_i, bt_processed_count,
          bt_error_count, bt_skipped_count, bt_marks, bt_pc,
          rag_documents, rag_chunks, rag_calls, rag_snippets,
          sc_target, sc_cands, sc_batch, sc_pair>>

rankVars == <<target_embedding, candidates_df, top_k, quicksort, calls, outcome,
              result, result_df, first>>

cosVars == <<vec1, vec2, cos_pc, cos_out>>

parVars == <<par_target, par_df, par_k, par_sims, par_order, par_pc, par_result>>

searchVars == <<xml_file, bq_target, bq_candidates, srch_k, srch_pc, srch_stages,
                srch_target, srch_cands, srch_out>>

\* the variables of the code around the ranking: retrieval, the LLM
\* pipelines, the download and the batch scripts
retryVars == <<rt_helper, rt_max_retries, rt_initial_wait, rt_attempt,
               rt_replies, rt_waits, rt_pc, rt_out>>

analysisVars == <<an_pc, an_started, an_texts, an_failed, an_report, an_out>>

examVars == <<ex_pc, ex_started, ex_history, ex_novelty, ex_inventive, ex_out>>

downloadVars == <<dl_script, dl_rows, dl_i, dl_chunk_num, dl_chunk_data,
                  dl_files, dl_pc, dl_reported>>

batchVars == <<bt_verbose, bt_total, bt_start, bt_end, bt_i, bt_processed_count,
               bt_error_count, bt_skipped_count, bt_marks, bt_pc>>

indexVars == <<rag_documents, rag_chunks, rag_calls, rag_snippets>>

scorerVars == <<sc_target, sc_cands, sc_batch, sc_pair>>

\* the variables of the code around the ranking: retrieval, the LLM
\* pipelines, the download and the batch scripts, and of the comparison of
\* the two scorers
pipelineVars == <<searchVars, retryVars, analysisVars, examVars, downloadVars,
                  batchVars, indexVars, scorerVars>>

\* the variables of the ranking code
coreVars == <<rankVars, cosVars, parVars>>

\* all variables but those of one part of the code
notSearchVars ==
    <<coreVars, retryVars, analysisVars, examVars, downloadVars, batchVars,
      indexVars, scorerVars>>

notRetryVars ==
    <<coreVars, searchVars, analysisVars, examVars, downloadVars, batchVars,
      indexVars, scorerVars>>

notAnalysisVars ==
    <<coreVars, searchVars, retryVars, examVars, downloadVars, batchVars,
      indexVars, scorerVars>>

notExamVars ==
    <<coreVars, searchVars, retryVars, analysisVars, downloadVars, batchVars,
      indexVars, scorerVars>>

notDownloadVars ==
    <<coreVars, searchVars, retryVars, analysisVars, examVars, batchVars,
      indexVars, scorerVars>>

notIndexVars ==
    <<coreVars, searchVars, retryVars, analysisVars, examVars, downloadVars,
      batchVars, scorerVars>>

notBatchVars ==
    <<coreVars, searchVars, retryVars, analysisVars, examVars, downloadVars,
      indexVars, scorerVars>>

notScorerVars ==
    <<coreVars, searchVars, retryVars, analysisVars, examVars, downloadVars,
      batchVars, indexVars>>

(***************************************************************************)
(* Bounds                                                                  *)
(***************************************************************************)
MaxCands == 3      \* longest candidate batch
MaxCalls == 2      \* calls of find_top_similar on one input
MaxDim == 2        \* longest vector handed to cosine_similarity
MaxComp == 1       \* largest component of such a vector
MaxParRows == 2    \* longest batch of the first of two concurrent calls
MaxSearchRows == 2 \* most rows the store holds for the candidate query
MaxRetries == 3     \* largest max_retries handed to a retry helper
MaxInitialWait == 2 \* largest initial_wait handed to a retry helper
ROWS_PER_CHUNK == 2 \* rows per chunk file (50000 in the scripts, scaled down)
MaxRows == 9        \* most rows of the temporary table
MaxBatchRows == 3   \* most rows of the CSV file of process_batch
MaxScorerRows == 2  \* most rows of a candidate matrix handed to both scorers
MaxIndexCalls == 2  \* calls of index_document on one SimpleRAGSystem

(***************************************************************************)
(* float64 values                                                          *)
(***************************************************************************)
RECURSIVE GCD(_, _)
GCD(a, b) == IF b = 0 THEN a ELSE GCD(b, a % b)

Abs(x) == IF x < 0 THEN -x ELSE x

Sign(x) == IF x < 0 THEN -1 ELSE IF x = 0 THEN 0 ELSE 1

NaN == [nan |-> TRUE, sgn |-> 0, p |-> 0, q |-> 0]

Zero == [nan |-> FALSE, sgn |-> 0, p |-> 0, q |-> 1]

\* num / sqrt(densq) for densq > 0, in lowest terms
Quotient(num, densq) ==
    IF num = 0 THEN Zero
    ELSE LET g == GCD(num * num, densq)
         IN  [nan |-> FALSE, sgn |-> Sign(num),
              p |-> (num * num) \div g, q |-> densq \div g]

IsNaN(x) == x.nan

\* float comparison x >= y: false as soon as one side is NaN
FloatGE(x, y) ==
    /\ ~IsNaN(x)
    /\ ~IsNaN(y)
    /\ x.sgn * x.p * y.q >= y.sgn * y.p * x.q

\* float comparison x == y
FloatEQ(x, y) == ~IsNaN(x) /\ ~IsNaN(y) /\ x = y

(***************************************************************************)
(* numpy helpers                                                           *)
(***************************************************************************)
RECURSIVE Dot(_, _)
\* np.dot of two 1-d arrays of the same length
Dot(u, v) ==
    IF Len(u) = 0 THEN 0
    ELSE Head(u) * Head(v) + Dot(Tail(u), Tail(v))

\* np.linalg.norm squared
NormSq(v) == Dot(v, v)

\* v / np.linalg.norm(v) has NaN components: every component is 0 / 0
DividesToNaN(v) == Len(v) > 0 /\ NormSq(v) = 0

(***************************************************************************)
(* SimilarityCalculator.cosine_similarity                                  *)
(***************************************************************************)
CosineSimilarityUnguarded(v1, v2) ==
    IF Len(v1) # Len(v2)
    THEN [outcome |-> "ValueError", value |-> NaN]
    ELSE IF NormSq(v1) = 0 \/ NormSq(v2) = 0
    THEN [outcome |-> "returned", value |-> NaN]
    ELSE [outcome |-> "returned",
          value |-> Quotient(Dot(v1, v2), NormSq(v1) * NormSq(v2))]

CosineSimilarity(v1, v2) ==
    IF Len(v1) # Len(v2)
    THEN \* np.dot: shapes not aligned
         [outcome |-> "ValueError", value |-> NaN]
    ELSE IF NormSq(v1) = 0 \/ NormSq(v2) = 0
    THEN [outcome |-> "returned", value |-> Zero]
    ELSE [outcome |-> "returned",
          value |-> Quotient(Dot(v1, v2), NormSq(v1) * NormSq(v2))]

(***************************************************************************)
(* SimilarityCalculator.batch_cosine_similarity                            *)
(***************************************************************************)
\* one entry of np.dot(candidate_norms, target_norm): the sum over the
\* components of (row / norm(row)) * (target / norm(target)); a NaN factor
\* makes the sum NaN, the empty sum is 0.0
RowSimilarity(target_vec, row) ==
    IF DividesToNaN(target_vec) \/ DividesToNaN(row) THEN NaN
    ELSE IF Len(row) = 0 THEN Zero
    ELSE Quotient(Dot(row, target_vec), NormSq(row) * NormSq(target_vec))

RECURSIVE DotZip(_, _)
\* a dot product that stops at the end of the shorter vector
DotZip(u, v) ==
    IF Len(u) = 0 \/ Len(v) = 0 THEN 0
    ELSE Head(u) * Head(v) + DotZip(Tail(u), Tail(v))

\* a scorer that compares vectors of different lengths over their common
\* prefix instead of raising
BatchCosineSimilarityZip(target_vec, candidate_vecs) ==
    [outcome |-> "returned",
     similarities |-> [i \in 1..Len(candidate_vecs) |->
         IF NormSq(target_vec) = 0 \/ NormSq(candidate_vecs[i]) = 0 THEN NaN
         ELSE Quotient(DotZip(candidate_vecs[i], target_vec),
                       NormSq(candidate_vecs[i]) * NormSq(target_vec))]]

\* candidate_vecs is an (n, d) array: a sequence of n rows of one length d
BatchCosineSimilarity(target_vec, candidate_vecs) ==
    IF \E i \in 1..Len(candidate_vecs) : Len(candidate_vecs[i]) # Len(target_vec)
    THEN \* np.dot: shapes (n, d) and (d',) not aligned
         [outcome |-> "ValueError", similarities |-> <<>>]
    ELSE [outcome |-> "returned",
          similarities |-> [i \in 1..Len(candidate_vecs) |->
                               RowSimilarity(target_vec, candidate_vecs[i])]]

(***************************************************************************)
(* pandas: DataFrame.nlargest(n, column) on one float column               *)
(***************************************************************************)
\* seq with position i put in: behind every entry that scores greater, and
\* behind (tie = "input") or before (tie = "reverse") the entries that score
\* the same
InsertDescending(seq, i, scores, tie) ==
    LET ahead == {m \in 1..Len(seq) :
                     IF tie = "input"
                     THEN FloatGE(scores[seq[m]], scores[i])
                     ELSE /\ FloatGE(scores[seq[m]], scores[i])
                          /\ ~FloatEQ(scores[seq[m]], scores[i])}
        cnt == Cardinality(ahead)
    IN  SubSeq(seq, 1, cnt) \o <<i>> \o SubSeq(seq, cnt + 1, Len(seq))

RECURSIVE ArgsortDescending(_, _, _)
\* the positions of seq ordered by descending score
ArgsortDescending(seq, scores, tie) ==
    IF Len(seq) = 0 THEN <<>>
    ELSE InsertDescending(
             ArgsortDescending(SubSeq(seq, 1, Len(seq) - 1), scores, tie),
             seq[Len(seq)], scores, tie)

\* the positions of the entries of scores that are (nan = TRUE) or are not NaN
RECURSIVE PositionsWhere(_, _, _)
PositionsWhere(scores, nan, upto) ==
    IF upto = 0 THEN <<>>
    ELSE LET rest == PositionsWhere(scores, nan, upto - 1)
         IN  IF IsNaN(scores[upto]) = nan THEN Append(rest, upto) ELSE rest

Head_n(seq, n) == SubSeq(seq, 1, IF n < Len(seq) THEN n ELSE Len(seq))

\* a sort whose order among equal keys changes from one call to the next
SortValuesDescendingPerCall(scores) ==
    ArgsortDescending(PositionsWhere(scores, FALSE, Len(scores)), scores,
                      IF calls = 0 THEN "input" ELSE "reverse")
        \o PositionsWhere(scores, TRUE, Len(scores))

\* Series.sort_values(ascending=False): NaN last, the rest by the default
\* kind "quicksort", which promises no order among equal keys
SortValuesDescending(scores) ==
    ArgsortDescending(PositionsWhere(scores, FALSE, Len(scores)), scores, quicksort)
        \o PositionsWhere(scores, TRUE, Len(scores))

\* Series.nlargest(n, keep="first"), as positions 1..Len(scores) of the column
Nlargest(scores, n) ==
    IF n <= 0 THEN <<>>
    ELSE IF n >= Len(scores)
    THEN \* "slow method": sort_values(ascending=False).head(n)
         Head_n(SortValuesDescending(scores), n)
    ELSE \* "fast method": the n largest of the non-NaN entries by a mergesort
         \* (stable), then the NaN entries, cut to n
         Head_n(ArgsortDescending(PositionsWhere(scores, FALSE, Len(scores)),
                                  scores, "input")
                    \o PositionsWhere(scores, TRUE, Len(scores)), n)

(***************************************************************************)
(* SimilarityCalculator.find_top_similar                                   *)
(***************************************************************************)
Min(a, b) == IF a < b THEN a ELSE b

\* np.array([np.array(emb) for emb in ...]): an (n, d) array when every
\* embedding has the same length, no such array otherwise
IsRagged(df) ==
    \E i, j \in 1..Len(df) : Len(df[i].embedding_v1) # Len(df[j].embedding_v1)

CandidateEmbeddings(df) == [i \in 1..Len(df) |-> df[i].embedding_v1]

\* a scored frame whose rows come in the reverse of the input order
ScoredFrameReversed(df, similarities) ==
    [i \in 1..Len(df) |->
        [index |-> Len(df) - i,
         publication_number |-> df[Len(df) + 1 - i].publication_number,
         title |-> df[Len(df) + 1 - i].title,
         embedding_v1 |-> df[Len(df) + 1 - i].embedding_v1,
         similarity_score |-> similarities[Len(df) + 1 - i]]]

\* result_df: a copy of the frame, each row under its index label, with the
\* column similarity_score, the i-th score in the i-th row
ScoredFrame(df, similarities) ==
    [i \in 1..Len(df) |->
        [index |-> i - 1,
         publication_number |-> df[i].publication_number,
         title |-> df[i].title,
         embedding_v1 |-> df[i].embedding_v1,
         similarity_score |-> similarities[i]]]

\* a row of top_k_df whose columns are those of another input row
ResultRowMisaligned(scored, pos) ==
    [index |-> scored[pos].index,
     publication_number |-> scored[Len(scored) + 1 - pos].publication_number,
     title |-> scored[Len(scored) + 1 - pos].title,
     similarity_score |-> scored[pos].similarity_score]

\* a row of top_k_df: the index label and the columns of the row of
\* result_df at position pos, without the column embedding_v1
ResultRow(scored, pos) ==
    [index |-> scored[pos].index,
     publication_number |-> scored[pos].publication_number,
     title |-> scored[pos].title,
     similarity_score |-> scored[pos].similarity_score]

RECURSIVE DropDuplicateIds(_)
\* rows without those whose publication_number an earlier row has
DropDuplicateIds(rows) ==
    IF Len(rows) = 0 THEN <<>>
    ELSE LET front == DropDuplicateIds(SubSeq(rows, 1, Len(rows) - 1))
             last == rows[Len(rows)]
         IN  IF \E j \in 1..(Len(rows) - 1) :
                    rows[j].publication_number = last.publication_number
             THEN front
             ELSE Append(front, last)

\* top_k_df with the rows of one publication_number merged into the first
TopKRowsDeduplicated(scored, inds) ==
    DropDuplicateIds([i \in 1..Len(inds) |-> ResultRow(scored, inds[i])])

\* top_k_df: the rows of result_df that nlargest picked, in its order
TopKRows(scored, inds) == [i \in 1..Len(inds) |-> ResultRow(scored, inds[i])]

Raised(err) == [outcome |-> err, rows |-> <<>>, result_df |-> <<>>]

\* the caller's frame after a call in which line 315 took no copy: line 316
\* has added the column similarity_score to it
CallerFrameNoCopy(df, scored) == IF Len(scored) = 0 THEN df ELSE scored

\* the caller's frame after a call: result_df is a copy (line 315), and the
\* column is added to and dropped from the copy
CallerFrame(df, scored) == df

\* lines 306-326: the call on a batch that has rows
TopSimilarOfRows(target, df, k) ==
    IF IsRagged(df)
    THEN Raised("ValueError")
    ELSE LET batch == BatchCosineSimilarity(target, CandidateEmbeddings(df))
         IN  IF batch.outcome # "returned"
             THEN Raised(batch.outcome)
             ELSE LET scored == ScoredFrame(df, batch.similarities)
                      inds == Nlargest(batch.similarities, Min(k, Len(df)))
                  IN  [outcome |-> "returned",
                       rows |-> TopKRows(scored, inds),
                       result_df |-> scored]

\* without lines 302-304: np.array([]) has one axis, and
\* np.linalg.norm(..., axis=1) raises AxisError, a ValueError
FindTopSimilarNoEmptyCheck(target, df, k) ==
    IF Len(df) = 0
    THEN Raised("ValueError")
    ELSE TopSimilarOfRows(target, df, k)

FindTopSimilar(target, df, k) ==
    IF Len(df) = 0
    THEN [outcome |-> "returned", rows |-> <<>>, result_df |-> <<>>]
    ELSE TopSimilarOfRows(target, df, k)

(***************************************************************************)
(* Inputs                                                                  *)
(***************************************************************************)
\* candidate rows: publication_number, title and embedding_v1.  "A" occurs
\* twice with parallel vectors (equal scores against any query), "Z" is
\* all-zero, "D" is empty, "E" has another length, "N" points the other way
Rows ==
    { [publication_number |-> "A", title |-> "a1", embedding_v1 |-> <<1, 0>>],
      [publication_number |-> "B", title |-> "b", embedding_v1 |-> <<0, 1>>],
      [publication_number |-> "C", title |-> "c", embedding_v1 |-> <<1, 1>>],
      [publication_number |-> "A", title |-> "a2", embedding_v1 |-> <<2, 0>>],
      [publication_number |-> "N", title |-> "n", embedding_v1 |-> <<-1, 0>>],
      [publication_number |-> "Z", title |-> "z", embedding_v1 |-> <<0, 0>>],
      [publication_number |-> "E", title |-> "e", embedding_v1 |-> <<1>>],
      [publication_number |-> "D", title |-> "d", embedding_v1 |-> <<>>] }

Batches == UNION {[1..n -> Rows] : n \in 0..MaxCands}

\* query vectors: a usable one, an all-zero one and an empty one
Queries == { <<1, 0>>, <<0, 0>>, <<>> }

TopKs == (0 - 1)..(MaxCands + 1)

Vectors == UNION {[1..d -> (0 - MaxComp)..MaxComp] : d \in 0..MaxDim}

NoCall == [outcome |-> "none", rows |-> <<>>, result_df |-> <<>>]

NoCosine == [outcome |-> "none", value |-> NaN]

\* the two callers of the concurrent calls
Callers == {1, 2}

\* no concurrent call is under way
NoConcurrentCalls ==
    /\ par_target = [c \in Callers |-> <<>>]
    /\ par_df = [c \in Callers |-> <<>>]
    /\ par_k = [c \in Callers |-> 0]
    /\ par_sims = [c \in Callers |-> <<>>]
    /\ par_order = [c \in Callers |-> <<>>]
    /\ par_pc = [c \in Callers |-> "idle"]
    /\ par_result = [c \in Callers |-> <<>>]

\* Python's None, and an embedding that was obtained
NoneValue == [none |-> TRUE, embedding |-> <<>>]

SomeEmbedding(v) == [none |-> FALSE, embedding |-> v]

\* no search is under way
NoSearch ==
    /\ xml_file = [publication_number |-> "", classification_codes |-> <<>>,
                    theme_codes |-> <<>>]
    /\ bq_target = [query |-> "ok", rows |-> <<>>]
    /\ bq_candidates = [query |-> "ok", rows |-> <<>>]
    /\ srch_k = 0
    /\ srch_pc = "idle"
    /\ srch_stages = <<>>
    /\ srch_target = NoneValue
    /\ srch_cands = <<>>
    /\ srch_out = [outcome |-> "none", rows |-> <<>>]

\* no retry helper is under way
NoRetry ==
    /\ rt_helper = "none"
    /\ rt_max_retries = 0
    /\ rt_initial_wait = 0
    /\ rt_attempt = 0
    /\ rt_replies = <<>>
    /\ rt_waits = <<>>
    /\ rt_pc = "idle"
    /\ rt_out = [outcome |-> "none", value |-> "none"]

\* no run_patent_analysis is under way
NoAnalysis ==
    /\ an_pc = "idle"
    /\ an_started = <<>>
    /\ an_texts = <<>>
    /\ an_failed = [step |-> "none", error |-> "none"]
    /\ an_report = <<>>
    /\ an_out = [outcome |-> "none", report |-> <<>>]

\* no report of step 4 or of step 6 yet, and no summary
NoNovelty == [novelty_judgement |-> "none", difference_points |-> <<>>]

NoInventive == [judgement |-> "none", confidence |-> "none"]

NoSummary ==
    [novelty |-> "none", inventive_step |-> "none", confidence |-> "none",
     requires_human_review |-> FALSE]

\* no run_full_examination is under way
NoExamination ==
    /\ ex_pc = "idle"
    /\ ex_started = <<>>
    /\ ex_history = <<>>
    /\ ex_novelty = NoNovelty
    /\ ex_inventive = NoInventive
    /\ ex_out = [outcome |-> "none", summary |-> NoSummary]

\* nothing was printed as Total chunks saved
NotReported == 0 - 1

\* no download is under way
NoDownload ==
    /\ dl_script = "none"
    /\ dl_rows = <<>>
    /\ dl_i = 0
    /\ dl_chunk_num = 0
    /\ dl_chunk_data = <<>>
    /\ dl_files = <<>>
    /\ dl_pc = "idle"
    /\ dl_reported = NotReported

\* no process_batch is under way
NoBatch ==
    /\ bt_verbose = FALSE
    /\ bt_total = 0
    /\ bt_start = 0
    /\ bt_end = 0
    /\ bt_i = 0
    /\ bt_processed_count = 0
    /\ bt_error_count = 0
    /\ bt_skipped_count = 0
    /\ bt_marks = <<>>
    /\ bt_pc = "idle"

\* the document ids SimpleRAGSystem is used with (steps 2 and 5)
DocIds == {"PriorArt_1", "All_Patents"}

\* a SimpleRAGSystem as __init__ leaves it, and no search made
NoIndex ==
    /\ rag_documents = [d \in DocIds |-> <<>>]
    /\ rag_chunks = <<>>
    /\ rag_calls = 0
    /\ rag_snippets = {}

\* no call of a scorer has ended
NoBatchScore == [outcome |-> "none", similarities |-> <<>>]

\* the two scorers are not being compared
NoScorers ==
    /\ sc_target = <<>>
    /\ sc_cands = <<>>
    /\ sc_batch = NoBatchScore
    /\ sc_pair = <<>>

\* nothing of the code around the ranking runs, but part p maybe
NoPipelineRunsBut(p) ==
    /\ IF p = "search" THEN TRUE ELSE NoSearch
    /\ IF p = "retry" THEN TRUE ELSE NoRetry
    /\ IF p = "analysis" THEN TRUE ELSE NoAnalysis
    /\ IF p = "examination" THEN TRUE ELSE NoExamination
    /\ IF p = "download" THEN TRUE ELSE NoDownload
    /\ IF p = "batch" THEN TRUE ELSE NoBatch
    /\ IF p = "index" THEN TRUE ELSE NoIndex
    /\ IF p = "scorers" THEN TRUE ELSE NoScorers

NoPipelineRuns == NoPipelineRunsBut("none")

\* no ranking call of any kind is under way
NoRanking ==
    /\ target_embedding = <<>>
    /\ candidates_df = <<>>
    /\ top_k = 0
    /\ calls = 0
    /\ outcome = "none"
    /\ result = <<>>
    /\ result_df = <<>>
    /\ first = NoCall
    /\ vec1 = <<>>
    /\ vec2 = <<>>
    /\ cos_pc = "idle"
    /\ cos_out = NoCosine
    /\ NoConcurrentCalls

(***************************************************************************)
(* Ranking: one input, find_top_similar called on it up to MaxCalls times  *)
(***************************************************************************)
Init ==
    /\ target_embedding \in Queries
    /\ candidates_df \in Batches
    /\ top_k \in TopKs
    /\ quicksort \in {"input", "reverse"}
    /\ calls = 0
    /\ outcome = "none"
    /\ result = <<>>
    /\ result_df = <<>>
    /\ first = NoCall
    /\ vec1 = <<>>
    /\ vec2 = <<>>
    /\ cos_pc = "idle"
    /\ cos_out = NoCosine
    /\ NoConcurrentCalls
    /\ NoPipelineRuns

find_top_similar ==
    /\ calls < MaxCalls
    /\ LET out == FindTopSimilar(target_embedding, candidates_df, top_k)
       IN  /\ outcome' = out.outcome
           /\ result' = out.rows
           /\ result_df' = out.result_df
           /\ first' = IF calls = 0 THEN out ELSE first
           /\ candidates_df' = CallerFrame(candidates_df, out.result_df)
    /\ calls' = calls + 1
    /\ UNCHANGED <<target_embedding, top_k, quicksort>>
    /\ UNCHANGED cosVars
    /\ UNCHANGED parVars
    /\ UNCHANGED pipelineVars

Next == find_top_similar

Spec == Init /\ [][Next]_vars

(***************************************************************************)
(* Pairwise scoring: cosine_similarity applied to one pair of vectors      *)
(***************************************************************************)
InitCosine ==
    /\ vec1 \in Vectors
    /\ vec2 \in Vectors
    /\ cos_pc = "start"
    /\ cos_out = NoCosine
    /\ target_embedding = <<>>
    /\ candidates_df = <<>>
    /\ top_k = 0
    /\ quicksort = "input"
    /\ calls = 0
    /\ outcome = "none"
    /\ result = <<>>
    /\ result_df = <<>>
    /\ first = NoCall
    /\ NoConcurrentCalls
    /\ NoPipelineRuns

cosine_similarity ==
    /\ cos_pc = "start"
    /\ cos_out' = CosineSimilarity(vec1, vec2)
    /\ cos_pc' = "done"
    /\ UNCHANGED <<vec1, vec2>>
    /\ UNCHANGED rankVars
    /\ UNCHANGED parVars
    /\ UNCHANGED pipelineVars

NextCosine == cosine_similarity

SpecCosine == InitCosine /\ [][NextCosine]_vars

(***************************************************************************)
(* Concurrent calls: two callers run find_top_similar on batches of their  *)
(* own at the same time; within a call the entries of similarities (line   *)
(* 288) are computed by workers in any order, each stored under the index  *)
(* of its row, and the call goes on to line 314 when all are there.        *)
(***************************************************************************)
RowTitled(t) == CHOOSE r \in Rows : r.title = t

\* the rows whose vectors have the length of the queries used here
ParRows == {r \in Rows : Len(r.embedding_v1) = 2}

ParBatches == UNION {[1..n -> ParRows] : n \in 0..MaxParRows}

\* the batch of the second caller: two rows that tie against its query
OtherBatches == { <<RowTitled("a2"), RowTitled("a1")>> }

\* an entry of similarities that no worker has written yet
Unscored == [nan |-> FALSE, sgn |-> 2, p |-> 0, q |-> 0]

\* a collection step that takes the scores in the order the workers finish
StoreScoreFirstDone(sims, order, i, score) ==
    [sims EXCEPT ![Len(order) + 1] = score]

\* the score of row i goes to entry i of similarities
StoreScore(sims, order, i, score) == [sims EXCEPT ![i] = score]

InitParallel ==
    /\ par_target = [c \in Callers |-> IF c = 1 THEN <<1, 0>> ELSE <<0, 1>>]
    /\ \E b \in ParBatches, o \in OtherBatches :
           par_df = [c \in Callers |-> IF c = 1 THEN b ELSE o]
    /\ \E k \in 1..MaxParRows : par_k = [c \in Callers |-> k]
    /\ par_sims = [c \in Callers |-> [i \in 1..Len(par_df[c]) |-> Unscored]]
    /\ par_order = [c \in Callers |-> <<>>]
    /\ par_pc = [c \in Callers |-> "scoring"]
    /\ par_result = [c \in Callers |-> <<>>]
    /\ quicksort \in {"input", "reverse"}
    /\ target_embedding = <<>>
    /\ candidates_df = <<>>
    /\ top_k = 0
    /\ calls = 0
    /\ outcome = "none"
    /\ result = <<>>
    /\ result_df = <<>>
    /\ first = NoCall
    /\ vec1 = <<>>
    /\ vec2 = <<>>
    /\ cos_pc = "idle"
    /\ cos_out = NoCosine
    /\ NoPipelineRuns

\* a worker of caller c's call computes the score of row i
score_row(c, i) ==
    /\ par_pc[c] = "scoring"
    /\ \A j \in 1..Len(par_order[c]) : par_order[c][j] # i
    /\ par_sims' = [par_sims EXCEPT ![c] =
           StoreScore(@, par_order[c], i,
                      RowSimilarity(par_target[c], par_df[c][i].embedding_v1))]
    /\ par_order' = [par_order EXCEPT ![c] = Append(@, i)]
    /\ UNCHANGED <<par_target, par_df, par_k, par_pc, par_result>>
    /\ UNCHANGED rankVars
    /\ UNCHANGED cosVars
    /\ UNCHANGED pipelineVars

\* caller c's call has all its scores: lines 314-326
rank_scored(c) ==
    /\ par_pc[c] = "scoring"
    /\ Len(par_order[c]) = Len(par_df[c])
    /\ par_result' = [par_result EXCEPT ![c] =
           TopKRows(ScoredFrame(par_df[c], par_sims[c]),
                    Nlargest(par_sims[c], Min(par_k[c], Len(par_df[c]))))]
    /\ par_pc' = [par_pc EXCEPT ![c] = "done"]
    /\ UNCHANGED <<par_target, par_df, par_k, par_sims, par_order>>
    /\ UNCHANGED rankVars
    /\ UNCHANGED cosVars
    /\ UNCHANGED pipelineVars

NextParallel ==
    \E c \in Callers :
        \/ \E i \in 1..Len(par_df[c]) : score_row(c, i)
        \/ rank_scored(c)

SpecParallel == InitParallel /\ [][NextParallel]_vars

(***************************************************************************)
(* What the claims speak of                                                *)
(***************************************************************************)
Called == calls > 0

Returned == Called /\ outcome = "returned"

\* a vector normalize would accept: not empty, not all-zero
Usable(v) == Len(v) > 0 /\ NormSq(v) > 0

UsablePositions(df) == {i \in 1..Len(df) : Usable(df[i].embedding_v1)}

\* the batch dimensionality: the length of the first usable vector
BatchDim(df) ==
    IF UsablePositions(df) = {} THEN 0
    ELSE LET i == CHOOSE x \in UsablePositions(df) :
                      \A y \in UsablePositions(df) : x <= y
         IN  Len(df[i].embedding_v1)

NumValid(df) ==
    Cardinality({i \in UsablePositions(df) : Len(df[i].embedding_v1) = BatchDim(df)})

\* missing, empty or zero-norm query vector
DegenerateQuery(v) == Len(v) = 0 \/ NormSq(v) = 0

\* the index labels of the rows the latest call returned
ReturnedLabels == {result[i].index : i \in 1..Len(result)}

\* the index labels of the input rows the latest call left out
ExcludedLabels == {i \in 0..(Len(candidates_df) - 1) : i \notin ReturnedLabels}

\* the score of the input row labelled i, in a call that returned
ScoreOfLabel(i) == RowSimilarity(target_embedding, candidates_df[i + 1].embedding_v1)

\* the query is one the spec lets be ranked against: not empty, not all-zero
UsableQuery == Usable(target_embedding)

\* the batch holds a row the query can be compared with
SomeComparableRow ==
    \E i \in 1..Len(candidates_df) :
        /\ Usable(candidates_df[i].embedding_v1)
        /\ Len(candidates_df[i].embedding_v1) = Len(target_embedding)

\* x is num / sqrt(densq)
IsQuotient(x, num, densq) ==
    /\ ~IsNaN(x)
    /\ x.sgn = Sign(num)
    /\ x.p * densq = x.q * num * num

(***************************************************************************)
(* C1: for every query vector, candidate batch and k >= 0, a call that     *)
(* returns has exactly min(k, number of valid candidates) result rows.     *)
(* Stated for the calls with a usable query vector, which C5 lets through. *)
(***************************************************************************)
C1_TruncationCorrectness ==
    (Returned /\ UsableQuery /\ top_k >= 0)
        => Len(result) = Min(top_k, NumValid(candidates_df))

(***************************************************************************)
(* C2: in every returned list the scores are non-increasing: for all       *)
(* positions i < j, result[i].score >= result[j].score.  Stated for the    *)
(* calls with a usable query vector.                                       *)
(***************************************************************************)
C2_ScoreMonotonicity ==
    (Returned /\ UsableQuery) =>
        \A i, j \in 1..Len(result) :
            i < j => FloatGE(result[i].similarity_score, result[j].similarity_score)

C5_InvalidQueryFailsFast ==
    (Called /\ DegenerateQuery(target_embedding) /\ Len(candidates_df) > 0)
        => (outcome # "returned" /\ result = <<>>)

(***************************************************************************)
(* C6 as stated: the pairwise score is 0.0, and nothing is raised,         *)
(* whenever either vector has zero norm; otherwise it is                   *)
(* dot(v1, v2) / (norm(v1) * norm(v2)).                                    *)
(***************************************************************************)
C6_ZeroNormSentinel ==
    cos_pc = "done" =>
        IF NormSq(vec1) = 0 \/ NormSq(vec2) = 0
        THEN cos_out = [outcome |-> "returned", value |-> Zero]
        ELSE Len(vec1) = Len(vec2) =>
                 /\ cos_out.outcome = "returned"
                 /\ IsQuotient(cos_out.value, Dot(vec1, vec2),
                               NormSq(vec1) * NormSq(vec2))

(***************************************************************************)
(* C6 amended: for two vectors of the same length, the pairwise score is   *)
(* 0.0, and nothing is raised, whenever either has zero norm; otherwise it *)
(* is dot(v1, v2) / (norm(v1) * norm(v2)).                                 *)
(***************************************************************************)
C6_ZeroNormSentinelSameLength ==
    (cos_pc = "done" /\ Len(vec1) = Len(vec2)) =>
        /\ cos_out.outcome = "returned"
        /\ IF NormSq(vec1) = 0 \/ NormSq(vec2) = 0
           THEN cos_out.value = Zero
           ELSE IsQuotient(cos_out.value, Dot(vec1, vec2),
                           NormSq(vec1) * NormSq(vec2))

\* an all-zero vector has been scored against a non-zero one of its length
C6_Witness ==
    /\ cos_pc = "done"
    /\ Len(vec1) = Len(vec2)
    /\ Len(vec1) > 0
    /\ NormSq(vec1) = 0
    /\ NormSq(vec2) > 0
    /\ cos_out = [outcome |-> "returned", value |-> Zero]

(***************************************************************************)
(* C7: ranking an empty candidate batch returns an empty result and is not *)
(* an error, for every query vector and every k.                           *)
(***************************************************************************)
C7_EmptyBatch ==
    (Called /\ Len(candidates_df) = 0)
        => (outcome = "returned" /\ result = <<>>)

\* an empty batch has been ranked against a zero-norm query with k > 0
C7_Witness ==
    /\ Called
    /\ Len(candidates_df) = 0
    /\ target_embedding = <<0, 0>>
    /\ top_k > 0
    /\ outcome = "returned"
    /\ result = <<>>

(***************************************************************************)
(* C8: for every k <= 0 and every non-empty candidate batch the call       *)
(* returns an empty result without raising.  Stated for the calls with a   *)
(* usable query vector and a batch that holds a row of the query's length. *)
(***************************************************************************)
C8_NonPositiveK ==
    (Called /\ top_k <= 0 /\ UsableQuery /\ SomeComparableRow)
        => (outcome = "returned" /\ result = <<>>)

(***************************************************************************)
(* C9: the ranking is exact over the whole batch: every candidate left out *)
(* of the returned rows has a score less than or equal to the score of     *)
(* every returned row.  Stated for the calls with a usable query vector.   *)
(***************************************************************************)
C9_ExactTopK ==
    (Returned /\ UsableQuery) =>
        \A e \in ExcludedLabels : \A i \in 1..Len(result) :
            FloatGE(result[i].similarity_score, ScoreOfLabel(e))

(***************************************************************************)
(* C10: every returned row carries a rank equal to its 1-based position in *)
(* the output: the ranks are exactly 1..len(result).  The one position a   *)
(* returned row carries is its index label.  Stated for the calls with a   *)
(* usable query vector.                                                    *)
(***************************************************************************)
C10_RankIsPosition ==
    (Returned /\ UsableQuery) => \A i \in 1..Len(result) : result[i].index = i

(***************************************************************************)
(* Candidate validation.  The code has no operation of its own for it: the *)
(* rows it accepts for ranking are the rows of result_df (lines 307-316),  *)
(* and it keeps no list of rejected rows.                                  *)
(***************************************************************************)
\* the index labels of the input rows accepted for ranking in the latest call
RankedLabels == {result_df[i].index : i \in 1..Len(result_df)}

\* the index labels of the input rows reported as rejected: the call
\* reports none, and an exception names no row
RejectedLabels == {}

InputLabels == 0..(Len(candidates_df) - 1)

InputVector(label) == candidates_df[label + 1].embedding_v1

\* the batch and the query are of one dimensionality and one row at least
\* can be ranked
RankableCall == Called /\ UsableQuery /\ SomeComparableRow

(***************************************************************************)
(* C11: a candidate whose vector is missing, empty or all-zero is never    *)
(* among the rows accepted for ranking, whatever its position and whatever *)
(* the other rows are.  Stated for the calls with a usable query vector.   *)
(***************************************************************************)
C11_ZeroVectorRejected ==
    (Called /\ UsableQuery) =>
        \A l \in RankedLabels : Usable(InputVector(l))

(***************************************************************************)
(* C12: exactly the non-empty, non-zero candidates whose vector length     *)
(* differs from the batch dimensionality are rejected (DimensionMismatch), *)
(* the others of them are accepted.  Stated for the calls whose usable     *)
(* query has the batch dimensionality and whose batch holds no empty and   *)
(* no all-zero vector.                                                     *)
(***************************************************************************)
C12_DimensionMismatchRejected ==
    (/\ RankableCall
     /\ Len(target_embedding) = BatchDim(candidates_df)
     /\ \A l \in InputLabels : Usable(InputVector(l))) =>
        \A l \in InputLabels :
            Usable(InputVector(l)) =>
                /\ (l \in RankedLabels)
                       <=> (Len(InputVector(l)) = BatchDim(candidates_df))
                /\ (l \in RejectedLabels)
                       <=> (Len(InputVector(l)) # BatchDim(candidates_df))

(***************************************************************************)
(* C13: a malformed candidate (empty, all-zero or of another length) never *)
(* aborts the batch: the call does not raise, and every other valid        *)
(* candidate is still ranked.  Stated for the calls whose usable query has *)
(* the batch dimensionality.                                               *)
(***************************************************************************)
C13_MalformedNeverAborts ==
    (RankableCall /\ Len(target_embedding) = BatchDim(candidates_df)) =>
        /\ outcome = "returned"
        /\ \A l \in InputLabels :
               (Usable(InputVector(l))
                   /\ Len(InputVector(l)) = BatchDim(candidates_df))
                   => l \in RankedLabels

C15_Partition ==
    (RankableCall /\ Len(target_embedding) = BatchDim(candidates_df)) =>
        /\ \A l \in InputLabels : (l \in RankedLabels) # (l \in RejectedLabels)
        /\ Len(result_df) + Cardinality(RejectedLabels) = Len(candidates_df)

(***************************************************************************)
(* C16: rows with the same identifier are independent rows: every input    *)
(* row is scored, no two returned rows are the same input row, none is     *)
(* merged away (the call returns min(k, number of rows) rows), and two     *)
(* rows sharing an identifier are both returned when k covers the batch.   *)
(***************************************************************************)
C16_DuplicatesIndependent ==
    Returned =>
        /\ RankedLabels = InputLabels
        /\ \A i, j \in 1..Len(result) :
               i # j => result[i].index # result[j].index
        /\ Len(result) = Min(IF top_k < 0 THEN 0 ELSE top_k, Len(candidates_df))
        /\ \A l, m \in InputLabels :
               (/\ l # m
                /\ candidates_df[l + 1].publication_number
                       = candidates_df[m + 1].publication_number
                /\ top_k >= Len(candidates_df))
                   => (l \in ReturnedLabels /\ m \in ReturnedLabels)

\* two returned rows share their identifier and are different rows
C16_Witness ==
    /\ Returned
    /\ \E i, j \in 1..Len(result) :
           /\ i # j
           /\ result[i].publication_number = result[j].publication_number
           /\ result[i].title # result[j].title

(***************************************************************************)
(* C17: the call never mutates its inputs: over every call the query       *)
(* vector and the caller's candidate frame stay what they were.            *)
(***************************************************************************)
C17_InputsNotMutated ==
    [][/\ target_embedding' = target_embedding
       /\ candidates_df' = candidates_df]_vars

\* a call has scored a batch and returned rows
C17_Witness ==
    /\ Returned
    /\ Len(candidates_df) > 1
    /\ Len(result_df) = Len(candidates_df)
    /\ Len(result) > 0

(***************************************************************************)
(* C18: every returned row carries the identifier and the metadata of the  *)
(* input row it was computed from, unchanged, plus that row's score, and   *)
(* nothing else.                                                           *)
(***************************************************************************)
C18_MetadataCarried ==
    Returned =>
        \A i \in 1..Len(result) :
            /\ result[i].index \in InputLabels
            /\ DOMAIN result[i]
                   = {"index", "publication_number", "title", "similarity_score"}
            /\ result[i].publication_number
                   = candidates_df[result[i].index + 1].publication_number
            /\ result[i].title = candidates_df[result[i].index + 1].title
            /\ result[i].similarity_score = ScoreOfLabel(result[i].index)

\* the returned rows come in another order than the input rows
C18_Witness ==
    /\ Returned
    /\ Len(result) >= 2
    /\ result[1].index > result[2].index
    /\ result[1].title # result[2].title

(***************************************************************************)
(* C19: a call in which a candidate's vector length differs from the       *)
(* query's fails with an error: the candidate is not skipped and gets no   *)
(* score.                                                                  *)
(***************************************************************************)
C19_DimensionMismatchFatal ==
    (Called /\ \E l \in InputLabels : Len(InputVector(l)) # Len(target_embedding))
        => (outcome # "returned" /\ result = <<>> /\ result_df = <<>>)

\* a call with a usable query, a row of its length and a row of another
\* length has raised
C19_Witness ==
    /\ RankableCall
    /\ \E l \in InputLabels :
           Usable(InputVector(l)) /\ Len(InputVector(l)) # Len(target_embedding)
    /\ outcome = "ValueError"

RECURSIVE WithEmbedding(_)
WithEmbedding(rows) ==
    IF rows = <<>> THEN <<>>
    ELSE IF Len(Head(rows).embedding_v1) > 0
         THEN <<Head(rows)>> \o WithEmbedding(Tail(rows))
         ELSE WithEmbedding(Tail(rows))

\* get_target_embedding: None when the query raises and when it finds no
\* row, the embedding of the first row otherwise
GetTargetEmbedding(store) ==
    IF store.query = "raises" THEN NoneValue
    ELSE LET results == Head_n(WithEmbedding(store.rows), 1)
         IN  IF Len(results) = 0 THEN NoneValue
             ELSE SomeEmbedding(results[1].embedding_v1)

\* the two-character prefixes of the codes that have two characters
Prefix2Chars(codes) ==
    {SubSeq(codes[i], 1, 2) : i \in {j \in 1..Len(codes) : Len(codes[j]) >= 2}}

\* get_candidate_embeddings: an empty frame when no code has a prefix and
\* when the query raises, the rows the query finds otherwise
GetCandidateEmbeddings(classification_codes, theme_codes, store) ==
    IF Prefix2Chars(classification_codes \o theme_codes) = {} THEN <<>>
    ELSE IF store.query = "raises" THEN <<>>
    ELSE WithEmbedding(store.rows)

\* search goes on to the candidates whatever get_target_embedding returned
StageAfterTargetUnchecked(embedding) == "candidates"

\* search, lines 355-357: no target embedding ends the call
StageAfterTarget(embedding) == IF embedding.none THEN "done" ELSE "candidates"

\* search, lines 366-368: no candidate ends the call
StageAfterCandidates(df) == IF Len(df) = 0 THEN "done" ELSE "rank"

\* pd.DataFrame(), returned by search
EmptyFrame == [outcome |-> "returned", rows |-> <<>>]

NotReturned == [outcome |-> "none", rows |-> <<>>]

\* codes are sequences of characters
XmlFiles ==
    [publication_number : {"JP-1-A", ""},
     classification_codes : { <<>>, << <<"G">> >>, << <<"G", "0", "6">> >> },
     theme_codes : { <<>>, << <<"5", "B">> >> }]

\* the target's rows in the store: none, one with an empty embedding, one
\* with an embedding
TargetStores ==
    [query : {"ok", "raises"},
     rows : { <<>>,
              << [publication_number |-> "JP-1-A", embedding_v1 |-> <<>>] >>,
              << [publication_number |-> "JP-1-A", embedding_v1 |-> <<1, 0>>] >> }]

SearchRows == {RowTitled("a1"), RowTitled("b"), RowTitled("e"), RowTitled("d")}

CandidateStores ==
    [query : {"ok", "raises"},
     rows : UNION {[1..n -> SearchRows] : n \in 0..MaxSearchRows}]

SearchStages == <<"parse", "target", "candidates", "rank">>

InitSearch ==
    /\ xml_file \in XmlFiles
    /\ bq_target \in TargetStores
    /\ bq_candidates \in CandidateStores
    /\ srch_k \in 1..MaxSearchRows
    /\ quicksort \in {"input", "reverse"}
    /\ srch_pc = "parse"
    /\ srch_stages = <<>>
    /\ srch_target = NoneValue
    /\ srch_cands = <<>>
    /\ srch_out = NotReturned
    /\ NoRanking
    /\ NoPipelineRunsBut("search")

\* search, lines 343-345: PatentXMLParser.parse
parse ==
    /\ srch_pc = "parse"
    /\ srch_stages' = Append(srch_stages, "parse")
    /\ IF xml_file.publication_number = ""
       THEN /\ srch_out' = [outcome |-> "ValueError", rows |-> <<>>]
            /\ srch_pc' = "done"
       ELSE /\ srch_out' = srch_out
            /\ srch_pc' = "target"
    /\ UNCHANGED <<xml_file, bq_target, bq_candidates, srch_k, srch_target,
                   srch_cands>>
    /\ UNCHANGED notSearchVars

\* search, lines 350-357
get_target_embedding ==
    /\ srch_pc = "target"
    /\ srch_stages' = Append(srch_stages, "target")
    /\ srch_target' = GetTargetEmbedding(bq_target)
    /\ srch_pc' = StageAfterTarget(srch_target')
    /\ srch_out' = IF srch_pc' = "done" THEN EmptyFrame ELSE srch_out
    /\ UNCHANGED <<xml_file, bq_target, bq_candidates, srch_k, srch_cands>>
    /\ UNCHANGED notSearchVars

\* search, lines 360-368
get_candidate_embeddings ==
    /\ srch_pc = "candidates"
    /\ srch_stages' = Append(srch_stages, "candidates")
    /\ srch_cands' = GetCandidateEmbeddings(xml_file.classification_codes,
                                            xml_file.theme_codes, bq_candidates)
    /\ srch_pc' = StageAfterCandidates(srch_cands')
    /\ srch_out' = IF srch_pc' = "done" THEN EmptyFrame ELSE srch_out
    /\ UNCHANGED <<xml_file, bq_target, bq_candidates, srch_k, srch_target>>
    /\ UNCHANGED notSearchVars

\* search, lines 371-381: find_top_similar on what the two stages obtained
rank ==
    /\ srch_pc = "rank"
    /\ srch_stages' = Append(srch_stages, "rank")
    /\ LET out == FindTopSimilar(srch_target.embedding, srch_cands, srch_k)
       IN  srch_out' = [outcome |-> out.outcome, rows |-> out.rows]
    /\ srch_pc' = "done"
    /\ UNCHANGED <<xml_file, bq_target, bq_candidates, srch_k, srch_target,
                   srch_cands>>
    /\ UNCHANGED notSearchVars

NextSearch ==
    \/ parse
    \/ get_target_embedding
    \/ get_candidate_embeddings
    \/ rank

SpecSearch == InitSearch /\ [][NextSearch]_vars

\* the value search returns for an input: lines 336-381 from end to end
SearchReturn(xml, target_store, candidate_store, k) ==
    IF xml.publication_number = "" THEN [outcome |-> "ValueError", rows |-> <<>>]
    ELSE LET embedding == GetTargetEmbedding(target_store)
             df == GetCandidateEmbeddings(xml.classification_codes,
                                          xml.theme_codes, candidate_store)
         IN  IF embedding.none THEN EmptyFrame
             ELSE IF Len(df) = 0 THEN EmptyFrame
             ELSE LET out == FindTopSimilar(embedding.embedding, df, k)
                  IN  [outcome |-> out.outcome, rows |-> out.rows]

\* what the caller of get_target_embedding is to tell apart
TargetSituation(store) ==
    IF store.query = "raises" THEN "retrieval failed"
    ELSE IF store.rows = <<>> THEN "no data available"
    ELSE IF Len(store.rows[1].embedding_v1) = 0 THEN "empty vector"
    ELSE "found"

\* what the caller of search is to tell apart
SearchSituation(target_store, candidate_store) ==
    IF TargetSituation(target_store) # "found" THEN TargetSituation(target_store)
    ELSE IF candidate_store.query = "raises" THEN "retrieval failed"
    ELSE IF WithEmbedding(candidate_store.rows) = <<>> THEN "no data available"
    ELSE "found"

StageRun(stage) == \E i \in 1..Len(srch_stages) : srch_stages[i] = stage

\* the XML file names the patent and a code with a prefix
CompleteXml(xml) ==
    /\ xml.publication_number # ""
    /\ Prefix2Chars(xml.classification_codes \o xml.theme_codes) # {}

(***************************************************************************)
(* C21: "no data available" (target not found, no candidates), "retrieval  *)
(* failed" and "target with an empty vector" never produce the same return *)
(* value: what get_target_embedding returned, and what search returned for *)
(* a complete XML file, is returned in no other of these situations.       *)
(***************************************************************************)
C21_OutcomesDistinguished ==
    /\ StageRun("target") =>
           \A other \in TargetStores :
               TargetSituation(other) # TargetSituation(bq_target)
                   => GetTargetEmbedding(other) # srch_target
    /\ (srch_pc = "done" /\ CompleteXml(xml_file)) =>
           \A t \in TargetStores, c \in CandidateStores :
               SearchSituation(t, c) # SearchSituation(bq_target, bq_candidates)
                   => SearchReturn(xml_file, t, c, srch_k) # srch_out

IsPrefix(s, t) == Len(s) <= Len(t) /\ s = SubSeq(t, 1, Len(s))

(***************************************************************************)
(* C22: search runs its stages in the order parse, target embedding,       *)
(* candidates, rank; candidates are fetched only after a target embedding  *)
(* was obtained, ranking happens only after a non-empty candidate set was  *)
(* obtained, and a target embedding of None or an empty candidate set ends *)
(* the call with an empty result and no later stage.                       *)
(***************************************************************************)
C22_StagesInOrder ==
    /\ IsPrefix(srch_stages, SearchStages)
    /\ StageRun("candidates") => ~srch_target.none
    /\ StageRun("rank") => Len(srch_cands) > 0
    /\ (StageRun("target") /\ srch_target.none) =>
           /\ srch_pc = "done"
           /\ srch_out = EmptyFrame
           /\ srch_stages = SubSeq(SearchStages, 1, 2)
    /\ (StageRun("candidates") /\ Len(srch_cands) = 0) =>
           /\ srch_pc = "done"
           /\ srch_out = EmptyFrame
           /\ srch_stages = SubSeq(SearchStages, 1, 3)

\* a search went through all four stages and returned rows
C22_Witness ==
    /\ srch_pc = "done"
    /\ srch_stages = SearchStages
    /\ Len(srch_out.rows) > 0

(***************************************************************************)
(* The LLM retry helpers: PatentExaminationSystem._generate_with_retry     *)
(* (src/llm_pipeline.py), generate_with_retry (src/llm_pipline_gemini.py), *)
(* PatentExaminationSystemChatGPT._call_api_with_retry and                 *)
(* PatentExaminationSystemRAG._generate_with_retry.  The model is outside  *)
(* the code: each call to it succeeds, fails with ResourceExhausted (the   *)
(* rate limit) or fails with another exception.                            *)
(***************************************************************************)
Helpers ==
    {"PatentExaminationSystem._generate_with_retry", "generate_with_retry",
     "PatentExaminationSystemChatGPT._call_api_with_retry",
     "PatentExaminationSystemRAG._generate_with_retry"}

Replies == {"ok", "ResourceExhausted", "Exception"}

\* _call_api_with_retry has no argument initial_wait: it waits 2 * 2^attempt
CallApiInitialWait == 2

\* the seconds PatentExaminationSystemRAG._generate_with_retry waits after
\* a rate-limit failure, per attempt made, and after any other failure
RagRateLimitWait == 5

RagErrorWait == 2

\* the argument of time.sleep after a failed call that is retried
WaitTime(helper, initial_wait, attempt, reply) ==
    IF helper = "PatentExaminationSystemRAG._generate_with_retry"
    THEN IF reply = "ResourceExhausted" THEN (attempt + 1) * RagRateLimitWait
         ELSE RagErrorWait
    ELSE IF helper = "PatentExaminationSystemChatGPT._call_api_with_retry"
    THEN CallApiInitialWait * (2 ^ attempt)
    ELSE initial_wait * (2 ^ attempt)

\* the body of the for loop for one attempt: return, raise or sleep and go on
AttemptResult(helper, max_retries, attempt, reply) ==
    IF reply = "ok" THEN "return"
    ELSE IF helper = "PatentExaminationSystemRAG._generate_with_retry"
    THEN IF reply = "ResourceExhausted" THEN "retry"
         ELSE IF attempt = max_retries - 1 THEN "raise" ELSE "retry"
    ELSE IF reply = "ResourceExhausted"
         THEN IF attempt < max_retries - 1 THEN "retry" ELSE "raise"
         ELSE "raise"

\* what follows the for loop: a raise in the RAG helper, nothing in the
\* others, so that they return None
AfterLoop(helper) ==
    IF helper = "PatentExaminationSystemRAG._generate_with_retry"
    THEN [outcome |-> "raised", value |-> "Exception"]
    ELSE [outcome |-> "returned", value |-> "None"]

NoOutcome == [outcome |-> "none", value |-> "none"]

InitRetry ==
    /\ rt_helper \in Helpers
    /\ rt_max_retries \in 0..MaxRetries
    /\ rt_initial_wait \in 1..MaxInitialWait
    /\ rt_attempt = 0
    /\ rt_replies = <<>>
    /\ rt_waits = <<>>
    /\ rt_pc = "loop"
    /\ rt_out = NoOutcome
    /\ quicksort = "input"
    /\ NoRanking
    /\ NoPipelineRunsBut("retry")

\* one pass of the for loop: the call to the model and what the helper does
\* with its reply, up to the next call or the end of the helper
generate_content(reply) ==
    /\ rt_pc = "loop"
    /\ rt_attempt < rt_max_retries
    /\ rt_replies' = Append(rt_replies, reply)
    /\ LET todo == AttemptResult(rt_helper, rt_max_retries, rt_attempt, reply)
       IN  /\ rt_waits' =
                 IF todo = "retry"
                 THEN Append(rt_waits, WaitTime(rt_helper, rt_initial_wait,
                                                rt_attempt, reply))
                 ELSE rt_waits
           /\ rt_attempt' = IF todo = "retry" THEN rt_attempt + 1 ELSE rt_attempt
           /\ rt_out' =
                 IF todo = "return" THEN [outcome |-> "returned", value |-> "response"]
                 ELSE IF todo = "raise" THEN [outcome |-> "raised", value |-> reply]
                 ELSE IF rt_attempt' < rt_max_retries THEN rt_out
                 ELSE AfterLoop(rt_helper)
           /\ rt_pc' = IF rt_out' = NoOutcome THEN "loop" ELSE "done"
    /\ UNCHANGED <<rt_helper, rt_max_retries, rt_initial_wait>>
    /\ UNCHANGED notRetryVars

\* range(max_retries) is empty: the helper goes to the end without a call
no_attempt ==
    /\ rt_pc = "loop"
    /\ rt_replies = <<>>
    /\ rt_max_retries <= 0
    /\ rt_out' = AfterLoop(rt_helper)
    /\ rt_pc' = "done"
    /\ UNCHANGED <<rt_helper, rt_max_retries, rt_initial_wait, rt_attempt,
                   rt_replies, rt_waits>>
    /\ UNCHANGED notRetryVars

NextRetry ==
    \/ \E reply \in Replies : generate_content(reply)
    \/ no_attempt

SpecRetry == InitRetry /\ [][NextRetry]_vars

\* the initial wait the helper works with; the RAG helper has none, and the
\* wait of its first retry is taken for it
InitialWait ==
    IF rt_helper = "PatentExaminationSystemRAG._generate_with_retry"
    THEN IF rt_waits = <<>> THEN 0 ELSE rt_waits[1]
    ELSE IF rt_helper = "PatentExaminationSystemChatGPT._call_api_with_retry"
    THEN CallApiInitialWait
    ELSE rt_initial_wait

(***************************************************************************)
(* C23: every retry helper makes at most max_retries calls to the model,   *)
(* returns the result of the first successful call, retries only after a   *)
(* rate-limit failure and then waits initial_wait * 2^attempt seconds,     *)
(* raises once the max_retries-th attempt has failed, and never returns    *)
(* None after exhausting its attempts.  Stated for the calls with          *)
(* max_retries >= 1.                                                       *)
(***************************************************************************)
C23_RetryContract ==
    rt_max_retries >= 1 =>
        /\ Len(rt_replies) <= rt_max_retries
        /\ \A i \in 1..Len(rt_replies) :
               rt_replies[i] = "ok" =>
                   /\ i = Len(rt_replies)
                   /\ rt_out = [outcome |-> "returned", value |-> "response"]
        /\ \A i \in 1..Len(rt_waits) :
               /\ rt_replies[i] = "ResourceExhausted"
               /\ rt_waits[i] = InitialWait * (2 ^ (i - 1))
        /\ (rt_pc = "done" /\ Len(rt_replies) = rt_max_retries
                /\ rt_replies[Len(rt_replies)] # "ok")
               => rt_out.outcome = "raised"
        /\ rt_pc = "done" => rt_out # [outcome |-> "returned", value |-> "None"]

(***************************************************************************)
(* run_patent_analysis (src/llm_pipline_gemini.py): five steps, each a     *)
(* call of generate_with_retry followed by response.text, all inside one   *)
(* try block whose handler returns the report built so far.                *)
(***************************************************************************)
\* the steps and the keys their results are stored under
AnalysisSteps ==
    << [step |-> "0.1", key |-> "step_0_1_structured_A"],
       [step |-> "0.2", key |-> "step_0_2_structured_B"],
       [step |-> "1", key |-> "step_1_claimant_argument"],
       [step |-> "2", key |-> "step_2_examiner_critique"],
       [step |-> "3", key |-> "step_3_final_judgement"] >>

\* how a step goes: the helper returns a response with a text, the helper
\* raises, or reading response.text raises
StepResults == {"response", "ResourceExhausted", "Exception", "text raises"}

Texts == {"t1", "t2"}

\* an entry is made for the step whatever became of it
StoreEntryAlways(report, key, res, text) ==
    Append(report, [key |-> key, text |-> IF res = "response" THEN text ELSE "None"])

\* analysis_report[key] = response.text, reached only when the call and
\* response.text raised nothing
StoreEntry(report, key, res, text) ==
    IF res = "response" THEN Append(report, [key |-> key, text |-> text])
    ELSE report

NoFailure == [step |-> "none", error |-> "none"]

InitAnalysis ==
    /\ an_pc = "running"
    /\ an_started = <<>>
    /\ an_texts = <<>>
    /\ an_failed = NoFailure
    /\ an_report = <<>>
    /\ an_out = [outcome |-> "none", report |-> <<>>]
    /\ quicksort = "input"
    /\ NoRanking
    /\ NoPipelineRunsBut("analysis")

\* the next step of the chain, and the return that follows the last step or
\* an exception
run_step(res, text) ==
    /\ an_pc = "running"
    /\ Len(an_started) < Len(AnalysisSteps)
    /\ LET this == AnalysisSteps[Len(an_started) + 1]
       IN  /\ an_started' = Append(an_started, this.step)
           /\ an_report' = StoreEntry(an_report, this.key, res, text)
           /\ an_texts' = IF res = "response" THEN Append(an_texts, text)
                          ELSE an_texts
           /\ an_failed' = IF res = "response" THEN an_failed
                           ELSE [step |-> this.step, error |-> res]
    /\ IF res # "response" \/ Len(an_started') = Len(AnalysisSteps)
       THEN /\ an_out' = [outcome |-> "returned", report |-> an_report']
            /\ an_pc' = "done"
       ELSE /\ an_out' = an_out
            /\ an_pc' = "running"
    /\ UNCHANGED notAnalysisVars

NextAnalysis == \E res \in StepResults, text \in Texts : run_step(res, text)

SpecAnalysis == InitAnalysis /\ [][NextAnalysis]_vars

\* the number of steps that completed
StepsCompleted ==
    IF an_failed = NoFailure THEN Len(an_started) ELSE Len(an_started) - 1

(***************************************************************************)
(* C24: run_patent_analysis runs the steps 0.1, 0.2, 1, 2, 3 in that       *)
(* order, each only after the previous one succeeded; whatever step fails, *)
(* the returned report holds exactly the results of the steps completed    *)
(* before the failure and no entry for the failed or a later step, and the *)
(* function never raises.                                                  *)
(***************************************************************************)
C24_ReportIsPrefix ==
    /\ an_started = [i \in 1..Len(an_started) |-> AnalysisSteps[i].step]
    /\ Len(an_started) <= Len(an_report) + 1
    /\ an_out.outcome # "raised"
    /\ an_pc = "done" =>
           /\ an_out.outcome = "returned"
           /\ an_failed # NoFailure \/ Len(an_started) = Len(AnalysisSteps)
           /\ an_out.report =
                  [i \in 1..StepsCompleted |->
                      [key |-> AnalysisSteps[i].key, text |-> an_texts[i]]]

\* step 2 failed after three steps had completed
C24_Witness ==
    /\ an_pc = "done"
    /\ an_failed.step = "2"
    /\ Len(an_out.report) = 3

(***************************************************************************)
(* PatentExaminationSystemRAG.run_full_examination                         *)
(* (src/llm_pipeline_difficult.py): steps 1 to 7 inside one try block      *)
(* whose handler returns an error dict.  The Japanese strings of the code  *)
(* are written in Latin letters here: "nashi" is the novelty judgement of  *)
(* line 614 (no novelty), "shinposei nashi" the judgement of line 617 (no  *)
(* inventive step), "kou", "chuu" and "tei" the confidences high, medium   *)
(* and low of lines 618 and 656.                                           *)
(***************************************************************************)
\* what step 4 may return: a novelty judgement and the difference points
NoveltyReports ==
    [novelty_judgement : {"nashi", "ari", "fumei"},
     difference_points : { <<>>, <<"d1">> }]

\* what step 6 may return
InventiveReports ==
    [judgement : {"shinposei ari", "shinposei nashi"},
     confidence : {"kou", "chuu", "tei"}]

\* the report run_full_examination makes up when it skips steps 5 and 6
SkippedInventive == [judgement |-> "shinposei nashi", confidence |-> "kou"]

\* steps 5 and 6 run whatever step 4 judged
StepAfterNoveltyNoSkip(novelty_report) == "5"

\* line 614: no novelty skips steps 5 and 6
StepAfterNovelty(novelty_report) ==
    IF novelty_report.novelty_judgement = "nashi" THEN "7" ELSE "5"

\* the entry "summary" of the dict returned at lines 645-658
Summary(novelty_report, inventive_step_report) ==
    [novelty |-> novelty_report.novelty_judgement,
     inventive_step |-> inventive_step_report.judgement,
     confidence |-> inventive_step_report.confidence,
     requires_human_review |-> inventive_step_report.confidence \in {"chuu", "tei"}]

\* the object ran no examination before, or one that ended at step 7
\* without steps 5 and 6
EarlierHistories == { <<>>, <<"1", "2", "3", "4">> }

InitExamination ==
    /\ ex_pc = "1"
    /\ ex_started = <<>>
    /\ ex_history \in EarlierHistories
    /\ ex_novelty = NoNovelty
    /\ ex_inventive = NoInventive
    /\ ex_out = [outcome |-> "none", summary |-> NoSummary]
    /\ quicksort = "input"
    /\ NoRanking
    /\ NoPipelineRunsBut("examination")

\* a step raised: the handler of lines 660-668 returns the error dict
StepRaises(step) ==
    /\ ex_pc = step
    /\ ex_started' = Append(ex_started, step)
    /\ ex_pc' = "done"
    /\ ex_out' = [outcome |-> "error", summary |-> NoSummary]
    /\ UNCHANGED <<ex_history, ex_novelty, ex_inventive>>
    /\ UNCHANGED notExamVars

\* a step of those that only hand on their result ended; the next is to run
StepEnds(step, next) ==
    /\ ex_pc = step
    /\ ex_started' = Append(ex_started, step)
    /\ ex_history' = Append(ex_history, step)
    /\ ex_pc' = next
    /\ UNCHANGED <<ex_novelty, ex_inventive, ex_out>>
    /\ UNCHANGED notExamVars

step1_structure_application == StepRaises("1") \/ StepEnds("1", "2")

step2_rag_comparison == StepRaises("2") \/ StepEnds("2", "3")

step3_claim_chart == StepRaises("3") \/ StepEnds("3", "4")

\* step 4 and the test of lines 614-621
step4_novelty_judgement ==
    \/ StepRaises("4")
    \/ \E report \in NoveltyReports :
           /\ ex_pc = "4"
           /\ ex_started' = Append(ex_started, "4")
           /\ ex_history' = Append(ex_history, "4")
           /\ ex_novelty' = report
           /\ ex_pc' = StepAfterNovelty(report)
           /\ ex_inventive' = IF ex_pc' = "7" THEN SkippedInventive
                              ELSE ex_inventive
           /\ UNCHANGED ex_out
           /\ UNCHANGED notExamVars

step5_motivation_search == StepRaises("5") \/ StepEnds("5", "6")

step6_inventive_step_judgement ==
    \/ StepRaises("6")
    \/ \E report \in InventiveReports :
           /\ ex_pc = "6"
           /\ ex_started' = Append(ex_started, "6")
           /\ ex_history' = Append(ex_history, "6")
           /\ ex_inventive' = report
           /\ ex_pc' = "7"
           /\ UNCHANGED <<ex_novelty, ex_out>>
           /\ UNCHANGED notExamVars

\* step 7 builds a dict and raises nothing; the return of lines 645-658
step7_prepare_human_review ==
    /\ ex_pc = "7"
    /\ ex_started' = Append(ex_started, "7")
    /\ ex_out' = [outcome |-> "returned",
                  summary |-> Summary(ex_novelty, ex_inventive)]
    /\ ex_pc' = "done"
    /\ UNCHANGED <<ex_history, ex_novelty, ex_inventive>>
    /\ UNCHANGED notExamVars

NextExamination ==
    \/ step1_structure_application
    \/ step2_rag_comparison
    \/ step3_claim_chart
    \/ step4_novelty_judgement
    \/ step5_motivation_search
    \/ step6_inventive_step_judgement
    \/ step7_prepare_human_review

SpecExamination == InitExamination /\ [][NextExamination]_vars

StepStarted(step) == \E i \in 1..Len(ex_started) : ex_started[i] = step

AllSteps == <<"1", "2", "3", "4", "5", "6", "7">>

StepsWithoutInventive == <<"1", "2", "3", "4", "7">>

(***************************************************************************)
(* C25: when step 4 judges the novelty "nashi", steps 5 and 6 are never    *)
(* executed and the reported inventive-step judgement is "shinposei nashi" *)
(* with confidence "kou", so that requires_human_review is false;          *)
(* otherwise step 7 runs only after steps 5 and 6 ran, in that order; in   *)
(* both cases steps 1 to 4 run in order first.                             *)
(***************************************************************************)
C25_NoveltySkipsInventive ==
    /\ IsPrefix(ex_started, AllSteps) \/ IsPrefix(ex_started, StepsWithoutInventive)
    /\ ex_novelty.novelty_judgement = "nashi" =>
           /\ ~StepStarted("5") /\ ~StepStarted("6")
           /\ ex_out.outcome = "returned" =>
                  /\ ex_out.summary.inventive_step = "shinposei nashi"
                  /\ ex_out.summary.confidence = "kou"
                  /\ ex_out.summary.requires_human_review = FALSE
    /\ (ex_novelty.novelty_judgement \notin {"none", "nashi"} /\ StepStarted("7"))
           => ex_started = AllSteps

\* an examination that found no novelty has returned
C25_Witness ==
    /\ ex_out.outcome = "returned"
    /\ ex_novelty.novelty_judgement = "nashi"
    /\ ex_started = StepsWithoutInventive

(***************************************************************************)
(* The chunked download of src/BigQuery/check_parquet.py (lines 50-90) and *)
(* src/BigQuery/claude/download_api.py (lines 38-66): the rows of the      *)
(* temporary table are streamed, collected in chunk_data and written to a  *)
(* numbered file when the chunk is full; what is left goes to a last file. *)
(* Only check_parquet.py prints the number of chunks.                      *)
(***************************************************************************)
Scripts == {"check_parquet.py", "download_api.py"}

\* the table holds n rows; a row is known by its place in the download order
Tables == {[i \in 1..n |-> i] : n \in 0..MaxRows}

\* a chunk is written only when it holds more rows than ROWS_PER_CHUNK
ChunkFullLate(chunk_data) == Len(chunk_data) > ROWS_PER_CHUNK

\* if len(chunk_data) >= ROWS_PER_CHUNK
ChunkFull(chunk_data) == Len(chunk_data) >= ROWS_PER_CHUNK

\* df.to_parquet(output_dir / embeddings_chunk_<chunk_num>.parquet)
ToParquet(files, chunk_num, chunk_data) ==
    Append(files, [chunk_num |-> chunk_num, rows |-> chunk_data])

\* print(f"Total chunks saved: {chunk_num + 1}")
TotalChunksSaved(chunk_num) == chunk_num + 1

InitDownload ==
    /\ dl_script \in Scripts
    /\ dl_rows \in Tables
    /\ dl_i = 0
    /\ dl_chunk_num = 0
    /\ dl_chunk_data = <<>>
    /\ dl_files = <<>>
    /\ dl_pc = "loop"
    /\ dl_reported = NotReported
    /\ quicksort = "input"
    /\ NoRanking
    /\ NoPipelineRunsBut("download")

\* one pass of the for loop: take the next row, write the chunk if full
download_row ==
    /\ dl_pc = "loop"
    /\ dl_i < Len(dl_rows)
    /\ dl_i' = dl_i + 1
    /\ LET chunk_data == Append(dl_chunk_data, dl_rows[dl_i + 1])
       IN  IF ChunkFull(chunk_data)
           THEN /\ dl_files' = ToParquet(dl_files, dl_chunk_num, chunk_data)
                /\ dl_chunk_data' = <<>>
                /\ dl_chunk_num' = dl_chunk_num + 1
           ELSE /\ dl_chunk_data' = chunk_data
                /\ UNCHANGED <<dl_files, dl_chunk_num>>
    /\ UNCHANGED <<dl_script, dl_rows, dl_pc, dl_reported>>
    /\ UNCHANGED notDownloadVars

\* the rows are exhausted: write what is left, print the total
save_final_chunk ==
    /\ dl_pc = "loop"
    /\ dl_i = Len(dl_rows)
    /\ dl_files' = IF dl_chunk_data # <<>>
                   THEN ToParquet(dl_files, dl_chunk_num, dl_chunk_data)
                   ELSE dl_files
    /\ dl_reported' = IF dl_script = "check_parquet.py"
                      THEN TotalChunksSaved(dl_chunk_num)
                      ELSE dl_reported
    /\ dl_pc' = "done"
    /\ UNCHANGED <<dl_script, dl_rows, dl_i, dl_chunk_num, dl_chunk_data>>
    /\ UNCHANGED notDownloadVars

NextDownload == download_row \/ save_final_chunk

SpecDownload == InitDownload /\ [][NextDownload]_vars

\* the rows of the chunk files, one file after the other
RECURSIVE ConcatChunks(_)
ConcatChunks(files) ==
    IF files = <<>> THEN <<>>
    ELSE Head(files).rows \o ConcatChunks(Tail(files))

(***************************************************************************)
(* C26: every downloaded row is written to exactly one chunk file, in      *)
(* download order: the files are numbered consecutively from 0, every file *)
(* but possibly the last holds exactly ROWS_PER_CHUNK rows, the last holds *)
(* between 1 and ROWS_PER_CHUNK rows, no empty file is written, and the    *)
(* concatenation of all files is the downloaded row sequence.              *)
(***************************************************************************)
C26_ChunksPartitionRows ==
    /\ \A j \in 1..Len(dl_files) :
           /\ dl_files[j].chunk_num = j - 1
           /\ Len(dl_files[j].rows) >= 1
           /\ Len(dl_files[j].rows) <= ROWS_PER_CHUNK
           /\ j < Len(dl_files) => Len(dl_files[j].rows) = ROWS_PER_CHUNK
    /\ ConcatChunks(dl_files) \o (IF dl_pc = "done" THEN <<>> ELSE dl_chunk_data)
           = SubSeq(dl_rows, 1, dl_i)
    /\ dl_pc = "done" => ConcatChunks(dl_files) = dl_rows

\* a download ended with full chunks and a last chunk that is not full
C26_Witness ==
    /\ dl_pc = "done"
    /\ Len(dl_files) >= 3
    /\ Len(dl_files[Len(dl_files)].rows) < ROWS_PER_CHUNK

(***************************************************************************)
(* C27: at the end of the download the number printed as Total chunks      *)
(* saved is the number of chunk files written, for every row count, zero   *)
(* and the multiples of ROWS_PER_CHUNK included.                           *)
(***************************************************************************)
C27_ReportedChunkCount ==
    (dl_pc = "done" /\ dl_script = "check_parquet.py")
        => dl_reported = Len(dl_files)

(***************************************************************************)
(* process_batch (src/batch_inventive.py, lines 363-455) with              *)
(* process_single_row (lines 171-284), which catches every exception and   *)
(* returns (True, result), (False, message) or, at line 258,               *)
(* (False, None, message).                                                 *)
(***************************************************************************)
\* what process_single_row returns for a row: a result of the shape lines
\* 414-416 read (dicts within dicts), another result, or a failure
RowReturns ==
    {"True, result", "True, other", "False, message", "False, None, message"}

\* how often lines 401, 403 and 439 raise the two counters for one row
RowMarks(verbose, in_frame, ret) ==
    IF ~in_frame
    THEN [processed |-> 0, error |-> 1]                \* df.iloc[i] raises
    ELSE IF ret = "False, None, message"
    THEN [processed |-> 0, error |-> 1]                \* success, msg = ... raises
    ELSE IF ret = "True, result"
    THEN [processed |-> 1, error |-> 0]
    ELSE IF ret = "True, other"                        \* msg.get raises if verbose
    THEN [processed |-> 1, error |-> IF verbose THEN 1 ELSE 0]
    ELSE [processed |-> 0, error |-> IF verbose THEN 2 ELSE 1]

InitBatch ==
    /\ bt_verbose \in BOOLEAN
    /\ bt_total \in (MaxBatchRows - 1)..MaxBatchRows
    /\ bt_start \in 0..1
    /\ bt_end \in bt_start..MaxBatchRows
    /\ bt_i = bt_start
    /\ bt_processed_count = 0
    /\ bt_error_count = 0
    /\ bt_skipped_count = 0
    /\ bt_marks = <<>>
    /\ bt_pc = "loop"
    /\ quicksort = "input"
    /\ NoRanking
    /\ NoPipelineRunsBut("batch")

\* one pass of the for loop, lines 394-445
process_single_row(ret) ==
    /\ bt_pc = "loop"
    /\ bt_i < bt_end
    /\ LET marks == RowMarks(bt_verbose, bt_i < bt_total, ret)
       IN  /\ bt_processed_count' = bt_processed_count + marks.processed
           /\ bt_error_count' = bt_error_count + marks.error
           /\ bt_marks' = Append(bt_marks, marks)
    /\ bt_i' = bt_i + 1
    /\ UNCHANGED <<bt_verbose, bt_total, bt_start, bt_end, bt_skipped_count, bt_pc>>
    /\ UNCHANGED notBatchVars

\* the loop is over: lines 447-455
save_results ==
    /\ bt_pc = "loop"
    /\ bt_i = bt_end
    /\ bt_pc' = "done"
    /\ UNCHANGED <<bt_verbose, bt_total, bt_start, bt_end, bt_i,
                   bt_processed_count, bt_error_count, bt_skipped_count, bt_marks>>
    /\ UNCHANGED notBatchVars

NextBatch ==
    \/ \E ret \in RowReturns : process_single_row(ret)
    \/ save_results

SpecBatch == InitBatch /\ [][NextBatch]_vars

(***************************************************************************)
(* C28: process_batch accounts for every row exactly once: for each index  *)
(* in [start, end) exactly one of processed_count and error_count goes up, *)
(* exactly once, so that at completion processed_count + error_count +     *)
(* skipped_count = end - start, whatever process_single_row returns.       *)
(***************************************************************************)
C28_EveryRowCountedOnce ==
    /\ \A j \in 1..Len(bt_marks) :
           bt_marks[j].processed + bt_marks[j].error = 1
    /\ bt_pc = "done" =>
           bt_processed_count + bt_error_count + bt_skipped_count
               = bt_end - bt_start

(***************************************************************************)
(* SimpleRAGSystem (src/llm_pipeline_difficult.py, lines 176-235).  A text *)
(* is modelled by its paragraphs, the result of full_text.split on blank   *)
(* lines; chunk texts and keywords are single letters, so that "keyword in *)
(* chunk_text" is equality.                                                *)
(***************************************************************************)
\* para.strip() on the paragraphs used here
Strip(para) ==
    IF para = " " THEN ""
    ELSE IF para = " p " THEN "p"
    ELSE para

\* texts of one or more paragraphs, some blank, some with blanks around
RagTexts == { <<"p", "q">>, <<"q">>, <<" ">>, <<" p ", "", "q", "r">> }

\* the paragraphs that index_document makes chunks of, stripped, in order
RECURSIVE NonEmptyParagraphs(_)
NonEmptyParagraphs(paragraphs) ==
    IF paragraphs = <<>> THEN <<>>
    ELSE IF Strip(Head(paragraphs)) # ""
         THEN <<Strip(Head(paragraphs))>> \o NonEmptyParagraphs(Tail(paragraphs))
         ELSE NonEmptyParagraphs(Tail(paragraphs))

\* d[key] = value on a dict kept as the sequence of its items: a key that
\* is there keeps its place, a new key goes to the end
DictSet(items, key, value) ==
    IF \E i \in 1..Len(items) : items[i].key = key
    THEN [i \in 1..Len(items) |->
             IF items[i].key = key THEN [key |-> key, value |-> value]
             ELSE items[i]]
    ELSE Append(items, [key |-> key, value |-> value])

\* the loop of lines 199-203 over the non-empty paragraphs, from chunk_id on
RECURSIVE StoreChunks(_, _, _, _)
StoreChunks(chunks, doc_id, paras, chunk_id) ==
    IF paras = <<>> THEN chunks
    ELSE StoreChunks(
             DictSet(chunks, <<doc_id, chunk_id>>,
                     [doc_id |-> doc_id, chunk_text |-> Head(paras)]),
             doc_id, Tail(paras), chunk_id + 1)

\* index_document, lines 195-203
IndexDocument(chunks, doc_id, paragraphs) ==
    StoreChunks(chunks, doc_id, NonEmptyParagraphs(paragraphs), 0)

\* line 224: the number of keywords of the query found in the chunk text
RECURSIVE Score(_, _)
Score(keywords, chunk_text) ==
    IF keywords = <<>> THEN 0
    ELSE (IF Head(keywords) = chunk_text THEN 1 ELSE 0)
             + Score(Tail(keywords), chunk_text)

\* lines 223-226: the chunks with a positive score, in dict order
RECURSIVE ScoredChunks(_, _)
ScoredChunks(chunks, keywords) ==
    IF chunks = <<>> THEN <<>>
    ELSE LET score == Score(keywords, Head(chunks).value.chunk_text)
             rest == ScoredChunks(Tail(chunks), keywords)
         IN  IF score > 0
             THEN <<[score |-> score, chunk_text |-> Head(chunks).value.chunk_text]>>
                      \o rest
             ELSE rest

\* line 229: list.sort(reverse=True, key=score), a stable sort
RECURSIVE SortByScore(_)
SortByScore(scored) ==
    IF scored = <<>> THEN <<>>
    ELSE LET rest == SortByScore(Tail(scored))
             ahead == {i \in 1..Len(rest) : rest[i].score > Head(scored).score}
         IN  SubSeq(rest, 1, Cardinality(ahead)) \o <<Head(scored)>>
                 \o SubSeq(rest, Cardinality(ahead) + 1, Len(rest))

\* lines 219-233 for one query: the texts of its top_k chunks
QuerySnippets(chunks, keywords, k) ==
    LET top == Head_n(SortByScore(ScoredChunks(chunks, keywords)), k)
    IN  {top[i].chunk_text : i \in 1..Len(top)}

\* search, lines 217-235: the set all_snippets
SearchSnippets(chunks, queries, k) ==
    UNION {QuerySnippets(chunks, queries[i], k) : i \in 1..Len(queries)}

\* lists of queries, each a sequence of keywords
RagQueries == { << <<"p">> >>, << <<"q">>, <<"r">> >>, << <<"p", "q">> >> }

InitIndex ==
    /\ rag_documents = [d \in DocIds |-> <<>>]
    /\ rag_chunks = <<>>
    /\ rag_calls = 0
    /\ rag_snippets = {}
    /\ quicksort = "input"
    /\ NoRanking
    /\ NoPipelineRunsBut("index")

index_document(doc_id, full_text) ==
    /\ rag_calls < MaxIndexCalls
    /\ rag_documents' = [rag_documents EXCEPT ![doc_id] = full_text]
    /\ rag_chunks' = IndexDocument(rag_chunks, doc_id, full_text)
    /\ rag_calls' = rag_calls + 1
    /\ UNCHANGED rag_snippets
    /\ UNCHANGED notIndexVars

search(queries, k) ==
    /\ rag_snippets' = SearchSnippets(rag_chunks, queries, k)
    /\ UNCHANGED <<rag_documents, rag_chunks, rag_calls>>
    /\ UNCHANGED notIndexVars

NextIndex ==
    \/ \E doc_id \in DocIds, full_text \in RagTexts : index_document(doc_id, full_text)
    \/ \E queries \in RagQueries, k \in {1, 3, 5} : search(queries, k)

SpecIndex == InitIndex /\ [][NextIndex]_vars

\* the chunk texts indexed under a doc_id, in dict order
RECURSIVE ChunksOf(_, _)
ChunksOf(chunks, doc_id) ==
    IF chunks = <<>> THEN <<>>
    ELSE IF Head(chunks).value.doc_id = doc_id
         THEN <<Head(chunks).value.chunk_text>> \o ChunksOf(Tail(chunks), doc_id)
         ELSE ChunksOf(Tail(chunks), doc_id)

\* the non-empty paragraphs of the texts now indexed
CurrentParagraphs ==
    UNION {{NonEmptyParagraphs(rag_documents[d])[i] :
               i \in 1..Len(NonEmptyParagraphs(rag_documents[d]))} : d \in DocIds}

(***************************************************************************)
(* C29: after any sequence of index_document calls the chunks indexed      *)
(* under a doc_id are exactly the non-empty paragraphs of the text most    *)
(* recently indexed under it, so that search never returns a paragraph of  *)
(* a text that a later index_document call replaced.                       *)
(***************************************************************************)
C29_ChunksAreLatestText ==
    /\ \A d \in DocIds :
           ChunksOf(rag_chunks, d) = NonEmptyParagraphs(rag_documents[d])
    /\ rag_snippets \subseteq CurrentParagraphs

(***************************************************************************)
(* The two scorers on one input (src/BigQuery/bigquery.py, lines 265-290): *)
(* batch_cosine_similarity(target_vec, candidate_vecs) is called once and  *)
(* cosine_similarity(target_vec, candidate_vecs[i]) once for every row i,  *)
(* in row order.  candidate_vecs is an (n, d) array with n >= 1.           *)
(***************************************************************************)
\* the (n, d) arrays with 1 <= n <= MaxScorerRows
Matrices ==
    UNION {[1..n -> {v \in Vectors : Len(v) = d}] :
              n \in 1..MaxScorerRows, d \in 0..MaxDim}

InitScorers ==
    /\ sc_target \in Vectors
    /\ sc_cands \in Matrices
    /\ sc_batch = NoBatchScore
    /\ sc_pair = <<>>
    /\ quicksort = "input"
    /\ NoRanking
    /\ NoPipelineRunsBut("scorers")

batch_cosine_similarity ==
    /\ sc_batch = NoBatchScore
    /\ sc_batch' = BatchCosineSimilarity(sc_target, sc_cands)
    /\ UNCHANGED <<sc_target, sc_cands, sc_pair>>
    /\ UNCHANGED notScorerVars

cosine_similarity_of_row ==
    /\ Len(sc_pair) < Len(sc_cands)
    /\ sc_pair' = Append(sc_pair,
                         CosineSimilarity(sc_target, sc_cands[Len(sc_pair) + 1]))
    /\ UNCHANGED <<sc_target, sc_cands, sc_batch>>
    /\ UNCHANGED notScorerVars

NextScorers ==
    \/ batch_cosine_similarity
    \/ cosine_similarity_of_row

SpecScorers == InitScorers /\ [][NextScorers]_vars

\* both scorers have been applied to the whole input
BothScored == sc_batch # NoBatchScore /\ Len(sc_pair) = Len(sc_cands)

(***************************************************************************)
(* C30: the vectorized scorer and the pairwise scorer agree: for every     *)
(* target vector and every candidate matrix,                               *)
(* batch_cosine_similarity(target, candidates)[i] equals                   *)
(* cosine_similarity(target, candidates[i]) for every row i, including     *)
(* rows or targets with zero norm.                                         *)
(***************************************************************************)
C30_ScorersAgree ==
    BothScored =>
        \A i \in 1..Len(sc_cands) :
            /\ sc_batch.outcome = sc_pair[i].outcome
            /\ sc_batch.outcome = "returned" =>
                   sc_batch.similarities[i] = sc_pair[i].value

====
